---- MODULE Spec2Model ----
(***************************************************************************)
(* A model of the abbrlink plugin: identifier generation (utils/hash.ts),  *)
(* the task list and conflict detection (utils/TaskManager.ts) and the     *)
(* batch run with and without collision checking (the plugin class).       *)
(*                                                                         *)
(* Characters are numbers: 0..9 the decimal digits, 10..15 the letters     *)
(* a..f, 16..21 the letters A..F, 22 any other character.  A string is a   *)
(* sequence of characters.  null, undefined and the empty string are all   *)
(* falsy in every test the code makes on a hash, and are all modelled by   *)
(* the empty sequence.                                                     *)
(***************************************************************************)
EXTENDS Naturals, Sequences, FiniteSets

(* ---------------------------------------------------------------- bounds *)

\* Number of markdown files of the vault.
NumFiles == 3
\* Number of hex characters of a digest (64 for SHA-256).
DigestLen == 2
\* Largest maxCollisionChecks a run is started with.
MaxRounds == 2

Files == 1..NumFiles
\* The hex characters a digest of the model is made of.
DigestChars == {0, 1}
Digests == [1..DigestLen -> DigestChars]
CTimes == 1..NumFiles
\* Basenames are numbered.  Files 1 and 2 (3 and 4, ...) are files of two
\* folders with the same basename.
basename == [f \in Files |-> (f - 1) \div 2]

DecimalChars == 0..9
HexChars == 0..21
Null == <<>>

Min(a, b) == IF a < b THEN a ELSE b

(* ----------------------------------------------------------- utils/hash *)

\* crypto.subtle.digest('SHA-256', name) as hex: a fixed injective function
\* of the name; identifiers collide through truncation or equal basenames.
RECURSIVE NameDigits(_, _)
NameDigits(n, len) ==
    IF len = 0 THEN <<>>
    ELSE Append(NameDigits(n \div 2, len - 1), n % 2)

Sha256Hex(str) == NameDigits(str, DigestLen)

\* BigInt(`0x${hex}`)
RECURSIVE HexValue(_)
HexValue(hex) ==
    IF hex = <<>> THEN 0
    ELSE HexValue(SubSeq(hex, 1, Len(hex) - 1)) * 16 + hex[Len(hex)]

\* BigInt.prototype.toString()
RECURSIVE DecString(_)
DecString(n) ==
    IF n < 10 THEN <<n>> ELSE Append(DecString(n \div 10), n % 10)

\* No padding at all.
padStartNone(s, maxLength) == s

\* String.prototype.padStart(maxLength, '0')
padStart(s, maxLength) ==
    [i \in 1..(maxLength - Len(s)) |-> 0] \o s

\* String.prototype.substring(0, n) and slice(0, n)
substring(s, n) == SubSeq(s, 1, Min(n, Len(s)))

hexToDecimal(hex, maxLength) ==
    LET decimal == DecString(HexValue(hex))
    IN  IF Len(decimal) < maxLength
        THEN padStart(decimal, maxLength)
        ELSE substring(decimal, maxLength)

\* The common tail of generateRandomHash and generateSha256.
EncodeDigest(hashHex, hashLength, useDecimal) ==
    IF useDecimal
    THEN hexToDecimal(hashHex, hashLength)
    ELSE substring(hashHex, hashLength)

\* A generator that returns the empty string.
generateRandomHashEmpty(hashLength, useDecimal, d) == <<>>

\* d is the digest of the 32 random bytes drawn.
generateRandomHash(hashLength, useDecimal, d) ==
    EncodeDigest(d, hashLength, useDecimal)

\* A generator that draws at random whatever the mode.
generateSha256Random(str, s, d) ==
    generateRandomHash(s.hashLength, s.useDecimal, d)

generateSha256(str, s, d) ==
    IF s.useRandomMode
    THEN generateRandomHash(s.hashLength, s.useDecimal, d)
    ELSE EncodeDigest(Sha256Hex(str), s.hashLength, s.useDecimal)

\* A match that stops one character before the length asked for.
LeadingLenShort(value, chars, max) ==
    LET ns == {n \in 0..Min(max - 1, Len(value)) :
                  \A i \in 1..n : value[i] \in chars}
    IN  CHOOSE n \in ns : \A m \in ns : m <= n

\* A document text is [has, value]: whether it holds an "abbrlink:" field
\* and the characters that follow the field name and its white space.
LeadingLen(value, chars, max) ==
    LET ns == {n \in 0..Min(max, Len(value)) :
                  \A i \in 1..n : value[i] \in chars}
    IN  CHOOSE n \in ns : \A m \in ns : m <= n

getExistingAbbrlink(content, hashLength, useDecimal) ==
    IF ~content.has THEN Null
    ELSE IF useDecimal
    THEN SubSeq(content.value, 1,
                LeadingLen(content.value, DecimalChars, hashLength))
    ELSE IF LeadingLen(content.value, HexChars, hashLength) = hashLength
         THEN SubSeq(content.value, 1, hashLength)
         ELSE Null

(* ---------------------------------------------------- utils/TaskManager *)

\* The elements of a set of numbers in ascending order.
RECURSIVE Ascending(_)
Ascending(S) ==
    IF S = {} THEN <<>>
    ELSE LET m == CHOOSE x \in S : \A y \in S : x <= y
         IN  <<m>> \o Ascending(S \ {m})

\* One task per markdown file, in the order of vault.getMarkdownFiles().
buildTaskList(v, s) ==
    [f \in 1..NumFiles |->
        LET hash == getExistingAbbrlink(v[f], s.hashLength, s.useDecimal)
        IN  [file |-> f,
             hasAbbrlink |-> hash # Null,
             hash |-> hash,
             needsLengthUpdate |-> hash # Null /\ Len(hash) # s.hashLength]]

\* The files of the tasks that hold hash h, in task order.
FilesOf(ts, h) ==
    LET sel == SelectSeq(ts, LAMBDA t : t.hash = h)
    IN  [i \in 1..Len(sel) |-> sel[i].file]

\* Conflict detection without the filter on the size of the groups.
findHashConflictsAnySize(ts) ==
    LET first == {i \in 1..Len(ts) :
                    /\ ts[i].hash # Null
                    /\ \A j \in 1..(i - 1) : ts[j].hash # ts[i].hash}
        order == Ascending(first)
    IN  [k \in 1..Len(order) |->
            [hash |-> ts[order[k]].hash,
             files |-> FilesOf(ts, ts[order[k]].hash)]]

\* The Map keeps its keys in insertion order: one entry per hash, in the
\* order of the first task that holds it; the entries of one file are dropped.
findHashConflicts(ts) ==
    LET first == {i \in 1..Len(ts) :
                    /\ ts[i].hash # Null
                    /\ \A j \in 1..(i - 1) : ts[j].hash # ts[i].hash}
        order == Ascending(first)
        entries == [k \in 1..Len(order) |->
                      [hash |-> ts[order[k]].hash,
                       files |-> FilesOf(ts, ts[order[k]].hash)]]
    IN  SelectSeq(entries, LAMBDA e : Len(e.files) > 1)

\* A filter that keeps every task, whatever skipExisting says.
filterTasksKeepAll(allTasks, s) == allTasks

\* A filter that, with overrideDifferentLength, keeps every task.
filterTasksOverrideAll(allTasks, s) ==
    IF s.skipExisting
    THEN SelectSeq(allTasks, LAMBDA task :
            ~task.hasAbbrlink \/ s.overrideDifferentLength)
    ELSE allTasks

filterTasksToProcess(allTasks, s) ==
    IF s.skipExisting
    THEN SelectSeq(allTasks, LAMBDA task :
            \/ ~task.hasAbbrlink
            \/ (s.overrideDifferentLength /\ task.needsLengthUpdate))
    ELSE allTasks

(* ------------------------------------------------------------ the plugin *)
(* An action is the code that runs between two awaits on I/O or on the     *)
(* random source; the steps in between are synchronous.                    *)

VARIABLES
    settings,     \* this.settings
    stat,         \* file.stat.ctime of every file, <<>> until first read
    vault,        \* the text of every file: [has, value]
    pc,           \* where the batch run (processFiles) is
    tasks,        \* tasksToProcess; currentTasks holds the same task objects
    checkCount,   \* processFilesWithCollisionCheck: checkCount
    hasConflicts, \* processFilesWithCollisionCheck: hasConflicts
    conflicts,    \* processFilesWithCollisionCheck: conflicts of this round
    pending,      \* tasks whose write of the commit is still in flight
    rs,           \* resolveConflicts: usedHashes, conflicts, sortedFiles, loops
    newHash,      \* resolveConflicts: newHash
    proc,         \* processFilesWithoutCollisionCheck: one processFile per task
    writes,       \* what processFrontMatter has written to every file, in order
    warnings,     \* the calls of NoticeManager.showCollisionWarning
    complete,     \* whether the completion notice was shown
    nDetect,      \* detection rounds of the run so far
    nResolve,     \* calls of resolveConflicts of the run so far
    firstHashes,  \* history: the tasks' hashes at the first detection round
    earlier,      \* history: how the earlier runs of the plugin ended
    call,         \* the last call of a function of utils, with its result
    named,        \* history: first name-derived result of generateSha256 by name
    failure,      \* whether the failure notice was shown
    edited,       \* history: the batch files that were changed from outside
    create        \* settings.autoGenerate and the handlers of vault 'create'

vars == <<settings, stat, vault, pc, tasks, checkCount, hasConflicts,
          conflicts, pending, rs, newHash, proc, writes, warnings,
          complete, nDetect, nResolve, firstHashes, earlier, call, named,
          failure, edited, create>>

\* What a step of a run leaves alone.
others == <<earlier, call, named, failure, edited, create>>

\* The texts a file of the model starts with: no abbrlink field, or the
\* abbrlink that a file of basename 1 was given under some hash length.
Contents ==
    {[has |-> FALSE, value |-> <<>>]} \cup
    {[has |-> TRUE, value |-> substring(Sha256Hex(1), n)] : n \in 1..DigestLen}

\* Only the order of the creation times matters: they are ranks, from 1.
Stats ==
    {s \in [Files -> CTimes] :
        \A c \in CTimes : c > 1 /\ (\E f \in Files : s[f] = c)
                              => \E f \in Files : s[f] = c - 1}

Settings ==
    [hashLength : 1..DigestLen,
     useDecimal : BOOLEAN,
     skipExisting : BOOLEAN,
     overrideDifferentLength : BOOLEAN,
     useRandomMode : BOOLEAN,
     checkCollision : BOOLEAN,
     maxCollisionChecks : 1..MaxRounds]

\* The names of the files.
Names == {basename[f] : f \in Files}

NoCall == [fn |-> "none"]

\* No 'create' event has come; configured is history: the useRandomMode that
\* the user has set.
NoCreate == [autoGenerate |-> FALSE, configured |-> FALSE, handlers |-> <<>>]

NoResolve == [usedHashes |-> {}, conflicts |-> <<>>, sortedFiles |-> <<>>,
              c |-> 0, i |-> 0]

InitRun ==
    /\ settings \in Settings
    /\ stat = <<>>
    /\ vault \in [Files -> Contents]
    /\ pc = "start"
    /\ tasks = <<>>
    /\ checkCount = 0
    /\ hasConflicts = TRUE
    /\ conflicts = <<>>
    /\ pending = {}
    /\ rs = NoResolve
    /\ newHash = Null
    /\ proc = <<>>
    /\ writes = [f \in Files |-> <<>>]
    /\ warnings = <<>>
    /\ complete = FALSE
    /\ nDetect = 0
    /\ nResolve = 0
    /\ firstHashes = <<>>
    /\ earlier = <<>>
    /\ call = NoCall
    /\ named = [n \in Names |-> Null]
    /\ failure = FALSE
    /\ edited = {}

\* DEFAULT_SETTINGS.autoGenerate is false: no file that is created is handled.
Init ==
    /\ InitRun
    /\ create = NoCreate

\* fileManager.processFrontMatter(file, fm => { fm.abbrlink = hash })
processFrontMatter(file, hash) ==
    /\ vault' = [vault EXCEPT ![file] = [has |-> TRUE, value |-> hash]]
    /\ writes' = [writes EXCEPT ![file] = Append(@, hash)]

\* generateUniqueHash(file) for every digest the random source may give.
UniqueHashes(file) ==
    {generateSha256(basename[file], settings, d) : d \in Digests}

\* The order of the comparator (a, b) => b.stat.ctime - a.stat.ctime, with
\* the newest file first.
RECURSIVE sortByCtimeDescending(_, _)
sortByCtimeDescending(files, ctime) ==
    IF files = <<>> THEN <<>>
    ELSE LET front == sortByCtimeDescending(SubSeq(files, 1, Len(files) - 1),
                                            ctime)
             f == files[Len(files)]
             k == Cardinality({i \in 1..Len(front) :
                                  ctime[front[i]] >= ctime[f]})
         IN  SubSeq(front, 1, k) \o <<f>> \o SubSeq(front, k + 1, Len(front))

\* Array.prototype.sort((a, b) => a.stat.ctime - b.stat.ctime): stable.
RECURSIVE sortByCtime(_, _)
sortByCtime(files, ctime) ==
    IF files = <<>> THEN <<>>
    ELSE LET front == sortByCtime(SubSeq(files, 1, Len(files) - 1), ctime)
             f == files[Len(files)]
             k == Cardinality({i \in 1..Len(front) :
                                  ctime[front[i]] <= ctime[f]})
         IN  SubSeq(front, 1, k) \o <<f>> \o SubSeq(front, k + 1, Len(front))

\* An end of the run without the notice.
CompletedSilently ==
    /\ UNCHANGED complete
    /\ pc' = "done"

\* processFiles: new Notice('完成！'), the end of the run
Completed ==
    /\ complete' = TRUE
    /\ pc' = "done"

\* A loop test that lets one more round in.
LoopGuardInclusive == hasConflicts /\ checkCount <= settings.maxCollisionChecks

\* while (hasConflicts && checkCount < this.settings.maxCollisionChecks)
LoopGuard == hasConflicts /\ checkCount < settings.maxCollisionChecks

\* The loop test and checkCount++, or the end of the loop and of the run.
LoopTest ==
    IF LoopGuard
    THEN /\ checkCount' = checkCount + 1
         /\ pc' = "assign"
         /\ UNCHANGED complete
    ELSE /\ Completed
         /\ UNCHANGED checkCount

\* processFiles up to the first await of the path it takes.
ProcessFiles ==
    /\ pc = "start"
    /\ LET allTasks == buildTaskList(vault, settings)
           tasksToProcess == filterTasksToProcess(allTasks, settings)
       IN  /\ tasks' = tasksToProcess
           /\ proc' = [i \in 1..Len(tasksToProcess) |->
                          [pc |-> "read", abbrlink |-> Null]]
    /\ IF settings.checkCollision
       THEN LoopTest
       ELSE /\ pc' = "direct"
            /\ UNCHANGED <<checkCount, complete>>
    /\ UNCHANGED <<settings, stat, vault, hasConflicts, conflicts, pending,
                   rs, newHash, writes, warnings, nDetect, nResolve, firstHashes>>
    /\ UNCHANGED others

\* The tasks that the for loop of the round still has to give a hash.
Unassigned == {i \in 1..Len(tasks) : tasks[i].hash = Null}

\* for (task of currentTasks) if (!task.hash) task.hash = await generate...:
\* the next task without a hash gets one.
AssignHash ==
    /\ pc = "assign"
    /\ Unassigned # {}
    /\ LET i == CHOOSE k \in Unassigned : \A m \in Unassigned : k <= m
       IN  \E hash \in UniqueHashes(tasks[i].file) :
               tasks' = [tasks EXCEPT ![i].hash = hash]
    /\ UNCHANGED <<settings, stat, vault, pc, checkCount, hasConflicts,
                   conflicts, pending, rs, newHash, proc, writes, warnings,
                   complete, nDetect, nResolve, firstHashes>>
    /\ UNCHANGED others

\* A detection round that commits whatever it finds.
DetectAndCommit ==
    /\ pc = "assign"
    /\ Unassigned = {}
    /\ conflicts' = findHashConflicts(tasks)
    /\ nDetect' = nDetect + 1
    /\ firstHashes' = IF nDetect = 0
                      THEN [i \in 1..Len(tasks) |-> tasks[i].hash]
                      ELSE firstHashes
    /\ pc' = "commit"
    /\ pending' = 1..Len(tasks)
    /\ UNCHANGED <<settings, stat, vault, tasks, checkCount, hasConflicts,
                   rs, newHash, proc, writes, warnings, complete, nResolve>>
    /\ UNCHANGED others

\* conflicts = await findHashConflicts(currentTasks) and the branch on it
Detect ==
    /\ pc = "assign"
    /\ Unassigned = {}
    /\ conflicts' = findHashConflicts(tasks)
    /\ nDetect' = nDetect + 1
    /\ firstHashes' = IF nDetect = 0
                      THEN [i \in 1..Len(tasks) |-> tasks[i].hash]
                      ELSE firstHashes
    /\ IF Len(conflicts') = 0
       THEN /\ pc' = "commit"
            /\ pending' = 1..Len(tasks)
       ELSE /\ pc' = "resolve"
            /\ UNCHANGED pending
    /\ UNCHANGED <<settings, stat, vault, tasks, checkCount, hasConflicts,
                   rs, newHash, proc, writes, warnings, complete, nResolve>>
    /\ UNCHANGED others

\* One write of Promise.all(currentTasks.map(processFrontMatter))
CommitWrite(i) ==
    /\ pc = "commit"
    /\ i \in pending
    /\ processFrontMatter(tasks[i].file, tasks[i].hash)
    /\ pending' = pending \ {i}
    /\ UNCHANGED <<settings, stat, pc, tasks, checkCount, hasConflicts,
                   conflicts, rs, newHash, proc, warnings, complete, nDetect,
                   nResolve, firstHashes>>
    /\ UNCHANGED others

\* Promise.all resolved: hasConflicts = false; return; the run ends
CommitDone ==
    /\ pc = "commit"
    /\ pending = {}
    /\ hasConflicts' = FALSE
    /\ Completed
    /\ UNCHANGED <<settings, stat, vault, tasks, checkCount, conflicts,
                   pending, rs, newHash, proc, writes, warnings, nDetect,
                   nResolve, firstHashes>>
    /\ UNCHANGED others

LengthStep == 4
LengthLimit == 32

\* A suggestion without the cap.
suggestedLengthUncapped(currentLength) == currentLength + LengthStep

\* Math.min(currentLength + 4, 32)
suggestedLength(currentLength) == Min(currentLength + LengthStep, LengthLimit)

\* A warning test that no round of the loop satisfies.
WarningDuePastLimit ==
    checkCount > settings.maxCollisionChecks /\ Len(conflicts) > 0

\* if (checkCount === maxCollisionChecks && conflicts.length > 0)
WarningDue ==
    checkCount = settings.maxCollisionChecks /\ Len(conflicts) > 0

\* After resolveConflicts has returned: the warning of the last round, then
\* the loop test.
AfterResolve ==
    /\ warnings' =
         IF WarningDue
         THEN Append(warnings,
                     [checkCount |-> checkCount,
                      conflicts |-> Len(conflicts),
                      currentLength |-> settings.hashLength,
                      suggestedLength |->
                          suggestedLength(settings.hashLength)])
         ELSE warnings
    /\ LoopTest

\* resolveConflicts up to its first draw.  The creation times are read here
\* for the first time: they are an input of the run, the same in every round.
ResolveStart ==
    /\ pc = "resolve"
    /\ nResolve' = nResolve + 1
    /\ IF stat = <<>> THEN stat' \in Stats ELSE UNCHANGED stat
    /\ LET found == findHashConflicts(tasks)
       IN  IF Len(found) = 0
           THEN /\ AfterResolve
                /\ UNCHANGED rs
           ELSE /\ pc' = "draw"
                /\ rs' = [usedHashes |->
                             {tasks[i].hash : i \in 1..Len(tasks)} \ {Null},
                          conflicts |-> found,
                          sortedFiles |-> sortByCtime(found[1].files, stat'),
                          c |-> 1,
                          i |-> 2]
                /\ UNCHANGED <<warnings, checkCount, complete>>
    /\ UNCHANGED <<settings, vault, tasks, hasConflicts, conflicts, pending,
                   newHash, proc, writes, nDetect, firstHashes>>
    /\ UNCHANGED others

\* A search that always finds the first task of the list.
FindTaskFirst(file) == IF Len(tasks) = 0 THEN 0 ELSE 1

\* tasks.find(t => t.file.path === file.path): the first such task
FindTask(file) ==
    LET hits == {k \in 1..Len(tasks) : tasks[k].file = file}
    IN  IF hits = {} THEN 0
        ELSE CHOOSE k \in hits : \A m \in hits : k <= m

\* The state of the two for loops of resolveConflicts after one more file;
\* c is past the last conflict when both loops have ended.
NextFile ==
    IF rs.i < Len(rs.sortedFiles)
    THEN [rs EXCEPT !.i = rs.i + 1]
    ELSE IF rs.c < Len(rs.conflicts)
    THEN [rs EXCEPT !.c = rs.c + 1,
                    !.sortedFiles =
                        sortByCtime(rs.conflicts[rs.c + 1].files, stat),
                    !.i = 2]
    ELSE [rs EXCEPT !.c = rs.c + 1]

\* A loop test that accepts every draw.
RejectedNever(h) == FALSE

\* while (usedHashes.has(newHash))
Rejected(h) == h \in rs.usedHashes

\* One turn of: do { newHash = await generateRandomHash() } while (...) and,
\* when the loop ends, the update of the task; after the last file,
\* resolveConflicts returns and its locals are gone.
DrawHash ==
    /\ pc = "draw"
    /\ \E d \in Digests :
         LET h == generateRandomHash(settings.hashLength,
                                     settings.useDecimal, d)
             k == FindTask(rs.sortedFiles[rs.i])
         IN  IF Rejected(h)
             THEN /\ newHash' = h
                  /\ UNCHANGED <<tasks, rs, pc, warnings, checkCount,
                                 complete>>
             ELSE /\ tasks' = IF k = 0 THEN tasks
                              ELSE [tasks EXCEPT ![k].hash = h]
                  /\ IF NextFile.c > Len(rs.conflicts)
                     THEN /\ rs' = NoResolve
                          /\ newHash' = Null
                          /\ AfterResolve
                     ELSE /\ rs' = NextFile
                          /\ newHash' = h
                          /\ UNCHANGED <<pc, warnings, checkCount, complete>>
    /\ UNCHANGED <<settings, stat, vault, hasConflicts, conflicts, pending,
                   proc, writes, nDetect, nResolve, firstHashes>>
    /\ UNCHANGED others

\* processFile up to the write: read, getExistingAbbrlink, generateUniqueHash
ProcessFileRead(i) ==
    /\ pc = "direct"
    /\ i \in 1..Len(proc)
    /\ proc[i].pc = "read"
    /\ LET existingHash == getExistingAbbrlink(vault[tasks[i].file],
                               settings.hashLength, settings.useDecimal)
       IN  IF existingHash # Null /\ settings.skipExisting
           THEN proc' = [proc EXCEPT ![i].pc = "done"]
           ELSE \E abbrlink \in UniqueHashes(tasks[i].file) :
                    proc' = [proc EXCEPT ![i] =
                                [pc |-> "write", abbrlink |-> abbrlink]]
    /\ UNCHANGED <<settings, stat, vault, pc, tasks, checkCount,
                   hasConflicts, conflicts, pending, rs, newHash, writes,
                   warnings, complete, nDetect, nResolve, firstHashes>>
    /\ UNCHANGED others

\* processFile: processFrontMatter(file, fm => { fm.abbrlink = abbrlink })
ProcessFileWrite(i) ==
    /\ pc = "direct"
    /\ i \in 1..Len(proc)
    /\ proc[i].pc = "write"
    /\ processFrontMatter(tasks[i].file, proc[i].abbrlink)
    /\ proc' = [proc EXCEPT ![i] = [pc |-> "done", abbrlink |-> Null]]
    /\ UNCHANGED <<settings, stat, pc, tasks, checkCount, hasConflicts,
                   conflicts, pending, rs, newHash, warnings, complete,
                   nDetect, nResolve, firstHashes>>
    /\ UNCHANGED others

\* processFilesWithoutCollisionCheck: Promise.all resolved; the run ends
DirectDone ==
    /\ pc = "direct"
    /\ \A i \in 1..Len(proc) : proc[i].pc = "done"
    /\ Completed
    /\ UNCHANGED <<settings, stat, vault, tasks, checkCount, hasConflicts,
                   conflicts, pending, rs, newHash, proc, writes, warnings,
                   nDetect, nResolve, firstHashes>>
    /\ UNCHANGED others

Next ==
    \/ ProcessFiles
    \/ AssignHash
    \/ Detect
    \/ \E i \in 1..NumFiles : CommitWrite(i)
    \/ CommitDone
    \/ ResolveStart
    \/ DrawHash
    \/ \E i \in 1..NumFiles : ProcessFileRead(i)
    \/ \E i \in 1..NumFiles : ProcessFileWrite(i)
    \/ DirectDone

Spec == Init /\ [][Next]_vars

\* The collision-checked runs with name-derived hashes over a vault in which
\* no file has an abbrlink yet, under the fairness of the event loop: a
\* continuation that is ready is run.
InitChecked ==
    /\ Init
    /\ settings.checkCollision
    /\ ~settings.useRandomMode
    /\ \A f \in Files : ~vault[f].has

NextChecked ==
    \/ ProcessFiles
    \/ AssignHash
    \/ Detect
    \/ \E i \in 1..NumFiles : CommitWrite(i)
    \/ CommitDone
    \/ ResolveStart
    \/ DrawHash

FairSpec == InitChecked /\ [][NextChecked]_vars /\ WF_vars(NextChecked)

(* ------------------------------------------------------- one run more *)

\* Largest number of runs of the plugin in a row.
MaxRuns == 2

\* How the finished run ended.
Outcome ==
    IF settings.checkCollision /\ hasConflicts THEN "exhausted" ELSE "committed"

\* The command or the ribbon icon is used again after a run has ended:
\* processFiles starts afresh on the vault as the earlier run left it.
RunAgain ==
    /\ pc = "done"
    /\ Len(earlier) + 1 < MaxRuns
    /\ earlier' = Append(earlier, Outcome)
    /\ pc' = "start"
    /\ tasks' = <<>>
    /\ checkCount' = 0
    /\ hasConflicts' = TRUE
    /\ conflicts' = <<>>
    /\ proc' = <<>>
    /\ writes' = [f \in Files |-> <<>>]
    /\ warnings' = <<>>
    /\ complete' = FALSE
    /\ nDetect' = 0
    /\ nResolve' = 0
    /\ firstHashes' = <<>>
    /\ UNCHANGED <<settings, stat, vault, pending, rs, newHash, call, named,
                   failure, edited,
                   create>>

\* The runs that leave alone the documents that have an abbrlink.
InitSkipExisting ==
    /\ Init
    /\ settings.skipExisting
    /\ ~settings.overrideDifferentLength

NextAgain == Next \/ RunAgain

RerunSpec == InitSkipExisting /\ [][NextAgain]_vars

(* ------------------------------------------------- the functions of utils *)
(* The functions of utils/hash.ts and TaskManager.findHashConflicts, called  *)
(* one at a time on inputs of their own, under the settings of the plugin.   *)

\* The state of the plugin, which a call of a function of utils leaves alone.
runVars == <<settings, stat, vault, pc, tasks, checkCount, hasConflicts,
             conflicts, pending, rs, newHash, proc, writes, warnings,
             complete, nDetect, nResolve, firstHashes, earlier, failure,
             edited, create>>

\* Hex characters of the digests given to the functions: 0, 1, 9, a, f.
UtilHexChars == {0, 1, 9, 10, 15}
UtilDigests == [1..DigestLen -> UtilHexChars]

\* Characters of the texts given to the extractor: 0, 9, a, another character.
UtilTextChars == {0, 9, 10, 22}

\* Document texts: no abbrlink field, or a field followed by up to
\* DigestLen + 1 characters.
UtilContents ==
    {[has |-> FALSE, value |-> <<>>]} \cup
    {[has |-> TRUE, value |-> v] :
        v \in UNION {[1..n -> UtilTextChars] : n \in 0..(DigestLen + 1)}}

\* Task lists of up to NumFiles files, each task with no hash or with one of
\* two hashes.
UtilTaskLists ==
    UNION {{[i \in 1..n |->
                [file |-> i, hasAbbrlink |-> hs[i] # Null, hash |-> hs[i],
                 needsLengthUpdate |-> FALSE]] :
            hs \in [1..n -> {Null, <<0>>, <<1>>}]} : n \in 0..NumFiles}

CallHexToDecimal ==
    /\ \E hex \in UtilDigests, maxLength \in 1..(DigestLen + 1) :
           call' = [fn |-> "hexToDecimal", hex |-> hex,
                    maxLength |-> maxLength,
                    result |-> hexToDecimal(hex, maxLength)]
    /\ UNCHANGED <<runVars, named>>

CallGenerateRandomHash ==
    /\ \E d \in UtilDigests :
           call' = [fn |-> "generateRandomHash",
                    result |-> generateRandomHash(settings.hashLength,
                                                  settings.useDecimal, d)]
    /\ UNCHANGED <<runVars, named>>

\* generateSha256(str, settings); d is the digest of the random bytes that
\* the call draws in random mode.
CallGenerateSha256 ==
    /\ \E str \in Names, d \in UtilDigests :
           LET result == generateSha256(str, settings, d)
           IN  /\ call' = [fn |-> "generateSha256", str |-> str,
                           result |-> result,
                           repeated |-> named[str] # Null,
                           afterRandom |-> call.fn = "generateRandomHash"]
               /\ named' = IF ~settings.useRandomMode /\ named[str] = Null
                           THEN [named EXCEPT ![str] = result]
                           ELSE named
    /\ UNCHANGED runVars

CallGetExistingAbbrlink ==
    /\ \E content \in UtilContents :
           call' = [fn |-> "getExistingAbbrlink", content |-> content,
                    result |-> getExistingAbbrlink(content,
                                  settings.hashLength, settings.useDecimal)]
    /\ UNCHANGED <<runVars, named>>

\* The identifier that the generator has just returned is put into a text as
\* "abbrlink: h", with or without text after it, and the text is searched.
CallExtractGenerated ==
    /\ call.fn \in {"generateSha256", "generateRandomHash"}
    /\ \E rest \in {<<>>, <<22>>} :
           call' = [fn |-> "extractGenerated", h |-> call.result,
                    result |-> getExistingAbbrlink(
                                  [has |-> TRUE, value |-> call.result \o rest],
                                  settings.hashLength, settings.useDecimal)]
    /\ UNCHANGED <<runVars, named>>

CallFindHashConflicts ==
    /\ \E ts \in UtilTaskLists :
           call' = [fn |-> "findHashConflicts", tasks |-> ts,
                    result |-> findHashConflicts(ts)]
    /\ UNCHANGED <<runVars, named>>

\* The plugin is loaded and no run has started.
UtilInit ==
    /\ Init
    /\ settings.skipExisting
    /\ ~settings.overrideDifferentLength
    /\ ~settings.checkCollision
    /\ settings.maxCollisionChecks = 1
    /\ \A f \in Files : ~vault[f].has

UtilNext ==
    \/ CallHexToDecimal
    \/ CallGenerateRandomHash
    \/ CallGenerateSha256
    \/ CallGetExistingAbbrlink
    \/ CallExtractGenerated
    \/ CallFindHashConflicts

UtilSpec == UtilInit /\ [][UtilNext]_vars

(* ------------------------------------------------------------ I/O errors *)
(* vault.read and processFrontMatter may reject.  The error leaves          *)
(* Promise.all, processFile and processFiles, which catch nothing or        *)
(* rethrow, and the callback of the ribbon icon catches it.  Promise.all     *)
(* cancels nothing: the operations that were started go on.                 *)

\* A stop that shows no notice.
FailedSilently ==
    /\ pc' = "failed"
    /\ UNCHANGED <<failure, complete>>

\* catch (error) { new Notice('Error generating abbrlinks!') }
Failed ==
    /\ failure' = TRUE
    /\ pc' = "failed"
    /\ UNCHANGED complete

\* A vault.read of buildTaskList rejects.
ProcessFilesFails ==
    /\ pc = "start"
    /\ Failed
    /\ UNCHANGED <<settings, stat, vault, tasks, checkCount, hasConflicts,
                   conflicts, pending, rs, newHash, proc, writes, warnings,
                   nDetect, nResolve, firstHashes, earlier, call, named,
                   edited, create>>

\* One processFrontMatter of the commit rejects, and Promise.all with it.
CommitWriteFails(i) ==
    /\ pc = "commit"
    /\ i \in pending
    /\ pending' = pending \ {i}
    /\ Failed
    /\ UNCHANGED <<settings, stat, vault, tasks, checkCount, hasConflicts,
                   conflicts, rs, newHash, proc, writes, warnings, nDetect,
                   nResolve, firstHashes, earlier, call, named, edited,
                   create>>

\* A processFrontMatter of the commit that was in flight when Promise.all
\* rejected ends: it writes, or it rejects as well.
LateCommitWrite(i) ==
    /\ pc = "failed"
    /\ settings.checkCollision
    /\ i \in pending
    /\ \/ processFrontMatter(tasks[i].file, tasks[i].hash)
       \/ UNCHANGED <<vault, writes>>
    /\ pending' = pending \ {i}
    /\ UNCHANGED <<settings, stat, pc, tasks, checkCount, hasConflicts,
                   conflicts, rs, newHash, proc, warnings, complete, nDetect,
                   nResolve, firstHashes, earlier, call, named, failure,
                   edited,
                   create>>

\* The vault.read or the processFrontMatter of one processFile rejects:
\* processFile logs and rethrows, and Promise.all rejects.
ProcessFileFails(i) ==
    /\ pc = "direct"
    /\ i \in 1..Len(proc)
    /\ proc[i].pc \in {"read", "write"}
    /\ proc' = [proc EXCEPT ![i] = [pc |-> "failed", abbrlink |-> Null]]
    /\ Failed
    /\ UNCHANGED <<settings, stat, vault, tasks, checkCount, hasConflicts,
                   conflicts, pending, rs, newHash, writes, warnings, nDetect,
                   nResolve, firstHashes, earlier, call, named, edited,
                   create>>

\* A processFile that was waiting for its read when Promise.all rejected
\* goes on.
LateProcessFileRead(i) ==
    /\ pc = "failed"
    /\ ~settings.checkCollision
    /\ i \in 1..Len(proc)
    /\ proc[i].pc = "read"
    /\ LET existingHash == getExistingAbbrlink(vault[tasks[i].file],
                               settings.hashLength, settings.useDecimal)
       IN  IF existingHash # Null /\ settings.skipExisting
           THEN proc' = [proc EXCEPT ![i].pc = "done"]
           ELSE \E abbrlink \in UniqueHashes(tasks[i].file) :
                    proc' = [proc EXCEPT ![i] =
                                [pc |-> "write", abbrlink |-> abbrlink]]
    /\ UNCHANGED <<settings, stat, vault, pc, tasks, checkCount,
                   hasConflicts, conflicts, pending, rs, newHash, writes,
                   warnings, complete, nDetect, nResolve, firstHashes,
                   earlier, call, named, failure, edited,
                   create>>

\* A processFile that was waiting for its write when Promise.all rejected
\* goes on.
LateProcessFileWrite(i) ==
    /\ pc = "failed"
    /\ ~settings.checkCollision
    /\ i \in 1..Len(proc)
    /\ proc[i].pc = "write"
    /\ processFrontMatter(tasks[i].file, proc[i].abbrlink)
    /\ proc' = [proc EXCEPT ![i] = [pc |-> "done", abbrlink |-> Null]]
    /\ UNCHANGED <<settings, stat, pc, tasks, checkCount, hasConflicts,
                   conflicts, pending, rs, newHash, warnings, complete,
                   nDetect, nResolve, firstHashes, earlier, call, named,
                   failure, edited,
                   create>>

NextFail ==
    \/ Next
    \/ ProcessFilesFails
    \/ \E i \in 1..NumFiles : CommitWriteFails(i)
    \/ \E i \in 1..NumFiles : LateCommitWrite(i)
    \/ \E i \in 1..NumFiles : ProcessFileFails(i)
    \/ \E i \in 1..NumFiles : LateProcessFileRead(i)
    \/ \E i \in 1..NumFiles : LateProcessFileWrite(i)

FailSpec == Init /\ [][NextFail]_vars

(* ------------------------------------------------- changes from outside *)

\* Largest number of changes from outside during a run.
MaxEdits == 1

\* Another program, or the user, gives an abbrlink to a file of the batch
\* that the run has scanned and not yet written.
ExternalEdit(f) ==
    /\ pc \in {"assign", "resolve", "draw", "commit", "direct"}
    /\ f \in {tasks[i].file : i \in 1..Len(tasks)}
    /\ writes[f] = <<>>
    /\ Cardinality(edited) < MaxEdits
    /\ f \notin edited
    /\ \E content \in Contents :
           /\ content.has
           /\ content # vault[f]
           /\ vault' = [vault EXCEPT ![f] = content]
    /\ edited' = edited \cup {f}
    /\ UNCHANGED <<settings, stat, pc, tasks, checkCount, hasConflicts,
                   conflicts, pending, rs, newHash, proc, writes, warnings,
                   complete, nDetect, nResolve, firstHashes, earlier, call,
                   named, failure,
                   create>>

NextExternal == Next \/ \E f \in Files : ExternalEdit(f)

\* The runs with name-derived identifiers, on both paths.
InitExternal ==
    /\ Init
    /\ ~settings.useRandomMode
    /\ ~settings.overrideDifferentLength

ExternalSpec == InitExternal /\ [][NextExternal]_vars

(* ------------------------------------------- the keepers of the groups *)
(* resolveConflicts sorts the files of a group by creation time and gives  *)
(* a new hash to every file but the first of the sorted list.  Which file  *)
(* that is, is computed here for a task list and for the same tasks in     *)
(* another order.                                                          *)

\* The plugin is loaded with name-derived hex identifiers; no run started.
QuietInit ==
    /\ UtilInit
    /\ ~settings.useDecimal
    /\ ~settings.useRandomMode
    /\ settings.hashLength = DigestLen

\* The orders that n tasks may come in.
Orders(n) == {p \in [1..n -> 1..n] : \A i, j \in 1..n : p[i] = p[j] => i = j}

Reordered(ts, p) == [i \in 1..Len(ts) |-> ts[p[i]]]

\* for (conflict of conflicts): sortedFiles[0] is skipped by the inner loop
\* "for (let i = 1; ...)" and keeps the hash of the group.
keepers(ts, ctime) ==
    LET found == findHashConflicts(ts)
    IN  {[hash |-> found[c].hash,
          file |-> sortByCtime(found[c].files, ctime)[1]] :
            c \in 1..Len(found)}

\* The task lists that resolveConflicts is called with: every task has a
\* hash by then.
ResolveTaskLists ==
    {ts \in UtilTaskLists : \A i \in 1..Len(ts) : ts[i].hash # Null}

CallResolveConflicts ==
    /\ \E ts \in ResolveTaskLists, ctime \in Stats :
         \E p \in Orders(Len(ts)) :
           call' = [fn |-> "resolveConflicts", tasks |-> ts,
                    reordered |-> Reordered(ts, p), ctime |-> ctime,
                    keepers |-> keepers(ts, ctime),
                    keepersReordered |-> keepers(Reordered(ts, p), ctime)]
    /\ UNCHANGED runVars
    /\ UNCHANGED named

OrderSpec == QuietInit /\ [][CallResolveConflicts]_vars

(* ------------------------------------------------------- the settings *)
(* The settings that are in force are what loadSettings read, changed by   *)
(* the sliders of the settings tab.  The lengths here are the real ones.   *)

\* Largest number that the data file of the plugin holds for a setting.
MaxPersisted == 33

DefaultHashLength == 8
DefaultMaxCollisionChecks == 3
HashLengthMin == 4
HashLengthMax == 32
HashLengthSliderStep == 4
MaxChecksMin == 1
MaxChecksMax == 10

\* DEFAULT_SETTINGS, the two numbers of it
DEFAULT_SETTINGS ==
    [hashLength |-> DefaultHashLength,
     maxCollisionChecks |-> DefaultMaxCollisionChecks]

\* What loadData() may resolve to: null, or an object with any of the
\* fields, each a number.
PersistedData ==
    UNION {[D -> 0..MaxPersisted] :
             D \in SUBSET {"hashLength", "maxCollisionChecks"}}

\* Object.assign({}, DEFAULT_SETTINGS, data)
assign(defaults, data) ==
    [k \in DOMAIN defaults |->
        IF k \in DOMAIN data THEN data[k] ELSE defaults[k]]

\* slider.setLimits(min, max, step): the values the slider can give
sliderValues(min, max, step) ==
    {v \in min..max : (v - min) % step = 0}

\* onload: await this.loadSettings()
CallLoadSettings ==
    /\ call.fn = "none"
    /\ \E data \in PersistedData :
         call' = [fn |-> "loadSettings",
                  config |-> assign(DEFAULT_SETTINGS, data)]
    /\ UNCHANGED runVars
    /\ UNCHANGED named

\* onChange of the slider 'Abbrlink Length'
CallChangeHashLength ==
    /\ call.fn # "none"
    /\ \E value \in sliderValues(HashLengthMin, HashLengthMax,
                                 HashLengthSliderStep) :
         call' = [fn |-> "onChange(hashLength)",
                  config |-> [call.config EXCEPT !.hashLength = value]]
    /\ UNCHANGED runVars
    /\ UNCHANGED named

\* onChange of the slider of maxCollisionChecks
CallChangeMaxCollisionChecks ==
    /\ call.fn # "none"
    /\ \E value \in sliderValues(MaxChecksMin, MaxChecksMax, 1) :
         call' = [fn |-> "onChange(maxCollisionChecks)",
                  config |-> [call.config EXCEPT !.maxCollisionChecks = value]]
    /\ UNCHANGED runVars
    /\ UNCHANGED named

\* The warning of a run that used its rounds up, under the settings in force:
\* currentLength = this.settings.hashLength and the length it suggests.
CallCollisionWarning ==
    /\ call.fn # "none"
    /\ call' = [fn |-> "collisionWarning", config |-> call.config,
                currentLength |-> call.config.hashLength,
                suggestedLength |-> suggestedLength(call.config.hashLength)]
    /\ UNCHANGED runVars
    /\ UNCHANGED named

ConfigNext ==
    \/ CallLoadSettings
    \/ CallChangeHashLength
    \/ CallChangeMaxCollisionChecks
    \/ CallCollisionWarning

ConfigSpec == QuietInit /\ [][ConfigNext]_vars

(* ------------------------------------------------ files that are created *)
(* The handler of vault.on('create') sets settings.useRandomMode, awaits     *)
(* processFile of the created file and sets useRandomMode back.  A handler  *)
(* is started for every file that is created, whatever else is going on.    *)

\* Number of files that are created.
MaxCreates == 2

\* A created file that is no markdown file: a folder, another extension.
Other == 0

\* The run variables that a handler leaves alone.
runState == <<stat, pc, tasks, checkCount, hasConflicts, conflicts, pending,
              rs, newHash, proc, warnings, complete, nDetect, nResolve,
              firstHashes, earlier, call, named, failure, edited>>

\* The handler of one more created file, up to the first await of
\* processFile; a file is created once.
CreateEvent(f) ==
    /\ Len(create.handlers) < MaxCreates
    /\ \A h \in 1..Len(create.handlers) :
           f \in Files => create.handlers[h].file # f
    /\ IF create.autoGenerate /\ f \in Files
       THEN /\ settings' = [settings EXCEPT !.useRandomMode = TRUE]
            /\ create' = [create EXCEPT !.handlers =
                            Append(@, [pc |-> "read", file |-> f,
                                       originalRandomMode |->
                                           settings.useRandomMode,
                                       abbrlink |-> Null])]
       ELSE /\ create' = [create EXCEPT !.handlers =
                            Append(@, [pc |-> "done", file |-> f,
                                       originalRandomMode |-> FALSE,
                                       abbrlink |-> Null])]
            /\ UNCHANGED settings
    /\ UNCHANGED <<vault, writes, runState>>

\* A processFile that never returns early.
CreateReadAlways(h) ==
    /\ h \in 1..Len(create.handlers)
    /\ create.handlers[h].pc = "read"
    /\ \E abbrlink \in UniqueHashes(create.handlers[h].file) :
           create' = [create EXCEPT !.handlers[h].pc = "write",
                                    !.handlers[h].abbrlink = abbrlink]
    /\ UNCHANGED <<settings, vault, writes, runState>>

\* processFile of the handler up to the write; when processFile returns
\* early the handler goes on: this.settings.useRandomMode = originalRandomMode
CreateRead(h) ==
    /\ h \in 1..Len(create.handlers)
    /\ create.handlers[h].pc = "read"
    /\ LET file == create.handlers[h].file
           existingHash == getExistingAbbrlink(vault[file],
                               settings.hashLength, settings.useDecimal)
       IN  IF existingHash # Null /\ settings.skipExisting
           THEN /\ settings' = [settings EXCEPT !.useRandomMode =
                                    create.handlers[h].originalRandomMode]
                /\ create' = [create EXCEPT !.handlers[h].pc = "done"]
           ELSE /\ \E abbrlink \in UniqueHashes(file) :
                      create' = [create EXCEPT
                                    !.handlers[h].pc = "write",
                                    !.handlers[h].abbrlink = abbrlink]
                /\ UNCHANGED settings
    /\ UNCHANGED <<vault, writes, runState>>

\* processFrontMatter of processFile, and the handler after it:
\* this.settings.useRandomMode = originalRandomMode
CreateWrite(h) ==
    /\ h \in 1..Len(create.handlers)
    /\ create.handlers[h].pc = "write"
    /\ processFrontMatter(create.handlers[h].file,
                          create.handlers[h].abbrlink)
    /\ settings' = [settings EXCEPT !.useRandomMode =
                                  create.handlers[h].originalRandomMode]
    /\ create' = [create EXCEPT !.handlers[h].pc = "done"]
    /\ UNCHANGED runState

\* vault.read or processFrontMatter rejects: processFile rethrows and the
\* handler, which catches nothing, ends at its await.
CreateFails(h) ==
    /\ h \in 1..Len(create.handlers)
    /\ create.handlers[h].pc \in {"read", "write"}
    /\ create' = [create EXCEPT !.handlers[h].pc = "failed"]
    /\ UNCHANGED <<settings, vault, writes, runState>>

CreateNext ==
    \/ \E f \in Files \cup {Other} : CreateEvent(f)
    \/ \E h \in 1..MaxCreates : CreateRead(h)
    \/ \E h \in 1..MaxCreates : CreateWrite(h)
    \/ \E h \in 1..MaxCreates : CreateFails(h)

\* The plugin is loaded, with autoGenerate on or off; no batch run.
InitCreate ==
    /\ InitRun
    /\ ~settings.overrideDifferentLength
    /\ ~settings.checkCollision
    /\ settings.maxCollisionChecks = 1
    /\ create \in {[autoGenerate |-> a, configured |-> settings.useRandomMode,
                    handlers |-> <<>>] : a \in BOOLEAN}

CreateSpec == InitCreate /\ [][CreateNext]_vars

\* A batch run with name-derived identifiers on a vault without abbrlinks,
\* after a folder was created and while files are created.
InitBusy ==
    /\ InitRun
    /\ ~settings.useRandomMode
    /\ ~settings.useDecimal
    /\ ~settings.overrideDifferentLength
    /\ settings.maxCollisionChecks = 1
    /\ \A f \in Files : ~vault[f].has
    /\ create = [autoGenerate |-> TRUE, configured |-> FALSE,
                 handlers |-> <<[pc |-> "done", file |-> Other,
                                 originalRandomMode |-> FALSE,
                                 abbrlink |-> Null]>>]

BusyNext ==
    \/ Next
    \/ \E f \in Files \cup {Other} : CreateEvent(f)
    \/ \E h \in 1..MaxCreates : CreateRead(h)
    \/ \E h \in 1..MaxCreates : CreateWrite(h)

BusySpec == InitBusy /\ [][BusyNext]_vars

(* ---------------------------------------------------------------- claims *)

Range(seq) == {seq[i] : i \in 1..Len(seq)}

\* The hash that the task of a file holds in the task list ts.
HashOfFile(ts, file) ==
    LET k == CHOOSE i \in 1..Len(ts) : ts[i].file = file IN ts[k].hash

\* What generateRandomHash can return under the settings of the run.
RandomHashes ==
    {generateRandomHash(settings.hashLength, settings.useDecimal, d) :
        d \in Digests}

\* The collision-checked run has ended by committing.
Committed == pc = "done" /\ settings.checkCollision /\ ~hasConflicts

\* The collision-checked run has ended after its last round found conflicts.
Exhausted == pc = "done" /\ settings.checkCollision /\ hasConflicts

\* The tasks that are in a conflict group of the task list ts.
InConflict(ts) ==
    {i \in 1..Len(ts) :
        \E j \in 1..Len(ts) :
            j # i /\ ts[i].hash # Null /\ ts[j].hash = ts[i].hash}

\* A REASSIGNING step (one call of resolveConflicts) ends with this step.
EndsReassigning == pc = "draw" /\ pc' # "draw"

\* C1: when a collision-checked run has committed, no document that the run
\* has written holds the same abbrlink as another document of the vault, be
\* that one a document of the batch or one the skip-existing filter left out.
\* (Two documents left out that shared an abbrlink before the run are not
\* counted against the claim.)
C1_UniqueAfterCommit ==
    Committed =>
        \A f, g \in Files :
            (f # g /\ writes[f] # <<>> /\ vault[g].has)
                => vault[f].value # vault[g].value

\* C2: every identifier written to a document has exactly hashLength
\* characters, all of the configured alphabet, on both paths.
C2_WrittenWellFormed ==
    \A f \in Files : \A k \in 1..Len(writes[f]) :
        /\ Len(writes[f][k]) = settings.hashLength
        /\ \A c \in Range(writes[f][k]) :
               c \in (IF settings.useDecimal THEN DecimalChars ELSE HexChars)

\* C3: at the end of every REASSIGNING step, in every conflict group that the
\* step found, a member of smallest creation time still holds the group's
\* identifier and every other member holds a newly drawn random identifier.
C3_EarliestKeeps ==
    [][EndsReassigning =>
        \A c \in 1..Len(rs.conflicts) :
            LET group == rs.conflicts[c]
                members == Range(group.files)
            IN  \E keeper \in members :
                    /\ \A f \in members : stat[keeper] <= stat[f]
                    /\ HashOfFile(tasks', keeper) = group.hash
                    /\ \A f \in members \ {keeper} :
                           /\ HashOfFile(tasks', f) # group.hash
                           /\ HashOfFile(tasks', f) \in RandomHashes]_vars

\* C3 witness: in a group of three whose oldest file is not the first of the
\* task list, the first reassignment is done and the oldest file has kept
\* the group's identifier.
C3_Witness ==
    /\ pc = "draw"
    /\ rs.i = 3
    /\ rs.sortedFiles[1] # rs.conflicts[rs.c].files[1]
    /\ stat[rs.sortedFiles[1]] < stat[rs.sortedFiles[2]]
    /\ HashOfFile(tasks, rs.sortedFiles[1]) = rs.conflicts[rs.c].hash
    /\ HashOfFile(tasks, rs.sortedFiles[2]) # rs.conflicts[rs.c].hash

\* C4: in a REASSIGNING step a drawn identifier is accepted only if no task
\* holds it at that moment, the tasks reassigned earlier in the step included.
C4_AcceptedIsUnused ==
    [][pc = "draw" =>
        \A k \in 1..Len(tasks) :
            tasks'[k].hash # tasks[k].hash
                => \A m \in 1..Len(tasks) : tasks[m].hash # tasks'[k].hash]_vars

\* C5: when all the tasks of a run (two or more, of pairwise distinct creation
\* times) enter the first detection round with one identifier X, then at the
\* end of the run the earliest task holds X and the others hold identifiers
\* that differ from X and from one another.
C5_ForcedCollisionResolved ==
    (/\ pc = "done"
     /\ settings.checkCollision
     /\ Len(tasks) >= 2
     /\ \A i \in 1..Len(tasks) : firstHashes[i] = firstHashes[1]
     /\ stat # <<>>
     /\ \A i, j \in 1..Len(tasks) :
            i # j => stat[tasks[i].file] # stat[tasks[j].file])
    => \A i \in 1..Len(tasks) :
           IF \A j \in 1..Len(tasks) :
                  stat[tasks[i].file] <= stat[tasks[j].file]
           THEN tasks[i].hash = firstHashes[1]
           ELSE /\ tasks[i].hash # firstHashes[1]
                /\ \A j \in 1..Len(tasks) :
                       j # i => tasks[j].hash # tasks[i].hash

\* C6: when a collision-checked run ends exhausted, the document of every
\* task that is in no remaining conflict group holds the task's identifier.
C6_ExhaustedCommitsTheRest ==
    (Exhausted /\ InConflict(tasks) # {})
    => \A i \in 1..Len(tasks) :
           i \notin InConflict(tasks)
               => getExistingAbbrlink(vault[tasks[i].file], settings.hashLength,
                                      settings.useDecimal) = tasks[i].hash

\* C7: a collision-checked run that ends with conflict groups left after
\* maxCollisionChecks rounds has shown the collision warning.
C7_WarningWhenExhausted ==
    (/\ pc = "done"
     /\ settings.checkCollision
     /\ nDetect = settings.maxCollisionChecks
     /\ \/ InConflict(tasks) # {}
        \/ (hasConflicts /\ Len(conflicts) > 0))
    => Len(warnings) >= 1

\* C7 witness: a run that has ended with two tasks still sharing an identifier.
C7_Witness ==
    /\ pc = "done"
    /\ settings.checkCollision
    /\ InConflict(tasks) # {}
    /\ Len(warnings) = 1

\* C8: a collision-checked run has at most maxCollisionChecks detection
\* rounds and at most maxCollisionChecks calls of resolveConflicts.
C8_RoundsBounded ==
    /\ nDetect <= settings.maxCollisionChecks
    /\ nResolve <= settings.maxCollisionChecks

\* C8 witness: a run of two or more rounds that has used all of them.
C8_Witness ==
    /\ pc = "done"
    /\ settings.maxCollisionChecks >= 2
    /\ nDetect = settings.maxCollisionChecks
    /\ nResolve = settings.maxCollisionChecks

\* C9: every collision-checked run ends, whatever the random source returns.
C9_Terminates == settings.checkCollision ~> (pc = "done")

\* C10: when a run has committed (on either path), every task of the batch
\* has been written exactly once.
C10_WrittenOnce ==
    (pc = "done" /\ (~settings.checkCollision \/ ~hasConflicts))
    => \A i \in 1..Len(tasks) : Len(writes[tasks[i].file]) = 1

\* A document text that carries a valid identifier of length hashLength.
CarriesIdentifier(content) ==
    /\ content.has
    /\ Len(content.value) = settings.hashLength
    /\ \A c \in Range(content.value) :
           c \in (IF settings.useDecimal THEN DecimalChars ELSE HexChars)

\* C11: with skipExisting and without overrideDifferentLength, no step of a
\* run writes a document that carries a valid identifier of length
\* hashLength or changes its text, and no step of a run that follows a
\* committed run writes any document.
C11_ExistingUntouched ==
    [][(pc # "done" /\ settings.skipExisting
            /\ ~settings.overrideDifferentLength)
        => /\ \A f \in Files :
                 CarriesIdentifier(vault[f])
                     => vault'[f] = vault[f] /\ writes'[f] = writes[f]
           /\ (earlier # <<>> /\ earlier[Len(earlier)] = "committed")
                 => writes' = writes /\ vault' = vault]_vars

\* C11 witness: a second run on the collision-checked path has ended without
\* a write, after a run that committed an identifier no document had before.
C11_Witness ==
    /\ pc = "done"
    /\ settings.checkCollision
    /\ earlier = <<"committed">>
    /\ \E f \in Files :
           /\ CarriesIdentifier(vault[f])
           /\ vault[f] \notin Contents
    /\ writes = [f \in Files |-> <<>>]

\* A run has ended without error and without exhaustion, on either path.
EndedWell == pc = "done" /\ (~settings.checkCollision \/ ~hasConflicts)

\* C12: with skipExisting and overrideDifferentLength, when a run has ended
\* without exhaustion, every document of the batch whose existing identifier
\* had a length other than hashLength has been written in the run and holds
\* an identifier of length hashLength.
C12_LengthMismatchReprocessed ==
    (EndedWell /\ settings.skipExisting /\ settings.overrideDifferentLength)
    => \A i \in 1..Len(tasks) :
           tasks[i].needsLengthUpdate
               => /\ writes[tasks[i].file] # <<>>
                  /\ Len(vault[tasks[i].file].value) = settings.hashLength

\* The abbrlink value of a document text is valid: it has a character, and
\* all its characters are of the alphabet.
ValidValue(content) ==
    /\ content.has
    /\ content.value # <<>>
    /\ \A c \in Range(content.value) :
           c \in (IF settings.useDecimal THEN DecimalChars ELSE HexChars)

\* The files of a task list.
FilesIn(ts) == {ts[i].file : i \in 1..Len(ts)}

\* C13: scanning and filtering with skipExisting: without
\* overrideDifferentLength a document that carries a valid identifier of
\* length hashLength is not in the filtered list, and with it a document whose
\* valid abbrlink value is shorter or longer than hashLength is in the list.
C13_SkipPolicy ==
    [][(pc = "start" /\ settings.skipExisting)
        => \A f \in Files :
              /\ (~settings.overrideDifferentLength
                      /\ CarriesIdentifier(vault[f]))
                    => f \notin FilesIn(tasks')
              /\ (settings.overrideDifferentLength /\ ValidValue(vault[f])
                      /\ Len(vault[f].value) # settings.hashLength)
                    => f \in FilesIn(tasks')]_vars

\* C14: the filtered list is the scanned list without the tasks to leave
\* alone, in the same order and with the same fields: every task when
\* skipExisting is off; otherwise the tasks without identifier and, only with
\* overrideDifferentLength, the tasks that need a length update.
C14_FilterExact ==
    [][pc = "start"
        => LET allTasks == buildTaskList(vault, settings)
               Keep(t) ==
                   \/ ~settings.skipExisting
                   \/ ~t.hasAbbrlink
                   \/ settings.overrideDifferentLength /\ t.needsLengthUpdate
           IN  /\ \A k \in 1..Len(allTasks) :
                      Keep(allTasks[k]) <=> allTasks[k] \in Range(tasks')
               /\ Range(tasks') \subseteq Range(allTasks)
               /\ \A i, j \in 1..Len(tasks') :
                      i < j => tasks'[i].file < tasks'[j].file]_vars

\* C14 witness: with both options on, the filter has kept a task for its
\* length and has left out a task that has an identifier of the right length.
C14_Witness ==
    /\ pc \in {"assign", "direct"}
    /\ settings.skipExisting
    /\ settings.overrideDifferentLength
    /\ \E i \in 1..Len(tasks) : tasks[i].needsLengthUpdate
    /\ \E f \in Files : f \notin FilesIn(tasks) /\ CarriesIdentifier(vault[f])

\* The characters that the generator may use: 0-9a-f, or 0-9.
Alphabet == IF settings.useDecimal THEN 0..9 ELSE 0..15

\* C15: every identifier that generateSha256 or generateRandomHash returns,
\* in either mode and encoding, has exactly hashLength characters, all of the
\* alphabet of the encoding.
C15_GeneratedWellFormed ==
    call.fn \in {"generateSha256", "generateRandomHash"}
    => /\ Len(call.result) = settings.hashLength
       /\ Range(call.result) \subseteq Alphabet

\* C15 witness: a decimal identifier of full length that was padded with a
\* zero in front.
C15_Witness ==
    /\ call.fn = "generateSha256"
    /\ settings.useDecimal
    /\ settings.hashLength = DigestLen
    /\ call.result[1] = 0
    /\ call.result[DigestLen] # 0

\* C16: hexToDecimal returns the base-10 rendering of the digest, with zeros
\* in front when it is shorter than maxLength, and cut to its last maxLength
\* characters when it is longer.
C16_DecimalKeepsLast ==
    call.fn = "hexToDecimal"
    => LET decimal == DecString(HexValue(call.hex))
           n == Len(decimal)
       IN  call.result =
               IF n < call.maxLength
               THEN [i \in 1..call.maxLength |->
                        IF i <= call.maxLength - n THEN 0
                        ELSE decimal[i - (call.maxLength - n)]]
               ELSE SubSeq(decimal, n - call.maxLength + 1, n)

\* C17: for a text whose abbrlink value is made of characters of the alphabet
\* and is longer or shorter than hashLength, getExistingAbbrlink returns null.
C17_ExtractExactLength ==
    (/\ call.fn = "getExistingAbbrlink"
     /\ call.content.has
     /\ Len(call.content.value) # settings.hashLength
     /\ \A c \in Range(call.content.value) :
            c \in (IF settings.useDecimal THEN DecimalChars ELSE HexChars))
    => call.result = Null

\* C18: getExistingAbbrlink on a text that contains "abbrlink: h", h an
\* identifier that the generator returned under the same settings, returns h.
C18_ExtractRoundTrip ==
    call.fn = "extractGenerated" => call.result = call.h

\* C18 witness: the round trip of a decimal identifier that starts with 0.
C18_Witness ==
    /\ call.fn = "extractGenerated"
    /\ settings.useDecimal
    /\ settings.hashLength > 1
    /\ call.h[1] = 0
    /\ call.result = call.h

\* The tasks of a list that hold the hash h.
Holders(ts, h) == {i \in 1..Len(ts) : ts[i].hash = h}

\* C19: findHashConflicts returns one group for every hash that two or more
\* tasks hold and no other group; a group has exactly the files of the tasks
\* that hold its hash, once each; no file is in two groups.
C19_ConflictGroups ==
    call.fn = "findHashConflicts"
    => LET ts == call.tasks
           r == call.result
       IN  /\ \A i \in 1..Len(ts) :
                  (ts[i].hash # Null /\ Cardinality(Holders(ts, ts[i].hash)) >= 2)
                      => Cardinality({k \in 1..Len(r) :
                                         r[k].hash = ts[i].hash}) = 1
           /\ \A k \in 1..Len(r) :
                  /\ r[k].hash # Null
                  /\ Len(r[k].files) >= 2
                  /\ Len(r[k].files) = Cardinality(Holders(ts, r[k].hash))
                  /\ Range(r[k].files) =
                         {ts[i].file : i \in Holders(ts, r[k].hash)}
           /\ \A k, l \in 1..Len(r) :
                  k # l => Range(r[k].files) \cap Range(r[l].files) = {}

\* C19 witness: two tasks of three share a hash, the third holds another:
\* one group of two.
C19_Witness ==
    /\ call.fn = "findHashConflicts"
    /\ Len(call.tasks) = 3
    /\ \A i \in 1..3 : call.tasks[i].hash # Null
    /\ Len(call.result) = 1
    /\ Len(call.result[1].files) = 2

\* C20: without random mode, a call of generateSha256 returns what the first
\* call with the same name returned, whatever was called in between.
C20_NameDeterminism ==
    (call.fn = "generateSha256" /\ ~settings.useRandomMode)
    => call.result = named[call.str]

\* C20 witness: a second call with a name, right after a call of
\* generateRandomHash.
C20_Witness ==
    /\ call.fn = "generateSha256"
    /\ ~settings.useRandomMode
    /\ call.repeated
    /\ call.afterRandom

\* C21: once an operation of a concurrent batch has failed, no document is
\* written any more.
C21_NoWriteAfterFailure ==
    [][failure => writes' = writes /\ vault' = vault]_vars

\* C22: a collision-checked run that ends exhausted has shown the collision
\* warning and the completion notice and not the failure notice, and the
\* warning was not shown after the completion notice.
C22_ExhaustedIsComplete ==
    [][/\ warnings' # warnings => ~complete
       /\ Exhausted'
             => complete' /\ ~failure' /\ Len(warnings') >= 1]_vars

\* C22 witness: a run of the largest number of rounds has ended exhausted.
C22_Witness ==
    /\ Exhausted
    /\ checkCount = MaxRounds
    /\ complete
    /\ ~failure
    /\ Len(warnings) = 1

\* C27: a run in which a read or a write has failed has shown the failure
\* notice and does not show the completion notice.
C27_FailureNotice ==
    /\ pc = "failed" => failure /\ ~complete
    /\ failure => pc = "failed"

\* C27 witness: a commit of which one write has failed and another one has
\* been done.
C27_Witness ==
    /\ failure
    /\ settings.checkCollision
    /\ pending = {}
    /\ \E f \in Files : writes[f] # <<>>

\* C23: on the collision-checked path a document is written only in the
\* commit that follows a detection round without conflict groups; the steps
\* that assign, detect and reassign leave the vault alone.
C23_OnlyCommitWrites ==
    [][settings.checkCollision
        => /\ (writes' # writes \/ vault' # vault)
                 => pc = "commit" /\ nDetect >= 1 /\ Len(conflicts) = 0
           /\ pc \in {"assign", "resolve", "draw"}
                 => writes' = writes /\ vault' = vault]_vars

\* C23 witness: the second detection round has found no conflict and the
\* first write of the run is done.
C23_Witness ==
    /\ pc = "commit"
    /\ nDetect = 2
    /\ nResolve = 1
    /\ Cardinality({f \in Files : writes[f] # <<>>}) = 1

\* C24: when a collision-checked run has ended, every call of
\* resolveConflicts of the run was followed by a detection round.
C24_ReassignThenDetect ==
    (pc = "done" /\ settings.checkCollision) => nResolve < nDetect

\* C25: every task has an identifier when a detection round starts, and the
\* loop that generates the identifiers of the tasks gives a task one only in
\* the first round.
C25_AssignInFirstRound ==
    [][/\ nDetect' # nDetect => \A i \in 1..Len(tasks) : tasks[i].hash # Null
       /\ (pc = "assign" /\ tasks' # tasks) => checkCount = 1]_vars

\* C25 witness: the second round detects, over the identifiers of a
\* reassignment.
C25_Witness ==
    /\ pc \in {"commit", "resolve"}
    /\ checkCount = 2
    /\ nDetect = 2
    /\ \E i \in 1..Len(tasks) : tasks[i].hash # firstHashes[i]

\* C26: when a run has ended by committing, a document of the batch that was
\* changed from outside after the scan and before the run wrote it has been
\* written by the run all the same, on both paths.
C26_StaleOverwrite ==
    EndedWell
    => \A f \in edited :
           /\ writes[f] # <<>>
           /\ vault[f].value = writes[f][Len(writes[f])]

\* C28: the files that keep the hash of their group in resolveConflicts are
\* the same whatever the order of the task list, files of a group with equal
\* creation times included.
C28_OrderIndependent ==
    call.fn = "resolveConflicts" => call.keepers = call.keepersReordered

\* C29: the settings in force always have hashLength in 4..32 and
\* maxCollisionChecks in 1..10, whether they come from the sliders or from
\* the persisted data.
C29_SettingsInRange ==
    call.fn # "none"
    => /\ call.config.hashLength \in HashLengthMin..HashLengthMax
       /\ call.config.maxCollisionChecks \in MaxChecksMin..MaxChecksMax

\* C30: the length that the collision warning suggests is the smaller of
\* hashLength + 4 and 32: never above 32, and above hashLength whenever
\* hashLength is below 32.
C30_SuggestedLength ==
    call.fn = "collisionWarning"
    => /\ call.suggestedLength =
            IF call.currentLength + 4 <= 32 THEN call.currentLength + 4
            ELSE 32
       /\ call.suggestedLength <= 32
       /\ call.currentLength < 32 => call.suggestedLength > call.currentLength

\* A warning at a length that the cap cuts: less than four below 32.
C30_Witness ==
    /\ call.fn = "collisionWarning"
    /\ call.currentLength < 32
    /\ call.currentLength + 4 > 32
    /\ call.suggestedLength = 32

\* The conflict groups of the final identifiers of the tasks.
FinalGroups == findHashConflicts(tasks)

\* C33: when a run that reported a collision warning has ended, at least one
\* conflict group is present among the final identifiers of the tasks, and
\* the warning names the number of the groups present then.
C33_WarningMatchesEnd ==
    (pc = "done" /\ warnings # <<>>)
    => /\ Len(FinalGroups) >= 1
       /\ \A w \in 1..Len(warnings) :
              warnings[w].conflicts = Len(FinalGroups)

\* The files of the conflict groups of the round.
ConflictFiles == UNION {Range(conflicts[c].files) : c \in 1..Len(conflicts)}

\* The identifiers that the tasks held when resolveConflicts of the round
\* started: those of the groups, and those of the tasks outside the groups,
\* which hold them still.
HeldAtStart ==
    {conflicts[c].hash : c \in 1..Len(conflicts)}
      \cup {tasks[i].hash : i \in {k \in 1..Len(tasks) :
                                       tasks[k].file \notin ConflictFiles}}

\* C34: every identifier that a step of resolveConflicts gives to a task
\* differs from every identifier that a task of the batch held when
\* resolveConflicts started.
C34_ReassignedIsFresh ==
    [][pc = "draw"
        => \A i \in 1..Len(tasks) :
               tasks'[i].hash # tasks[i].hash
                   => tasks'[i].hash \notin HeldAtStart]_vars

\* resolveConflicts has given a file of a group an identifier that is not the
\* one of the group.
C34_Witness ==
    /\ nResolve >= 1
    /\ nResolve = nDetect
    /\ \E c \in 1..Len(conflicts) :
           \E f \in Range(conflicts[c].files) :
               HashOfFile(tasks, f) # conflicts[c].hash

\* resolveConflicts of the round has returned.
Reassigned == nResolve >= 1 /\ nResolve = nDetect /\ pc # "draw"

\* C35: no step of resolveConflicts changes the identifier of a task outside
\* the conflict groups of the round, and when resolveConflicts has returned,
\* in every group of n files exactly n - 1 hold another identifier than the
\* one of the group.
C35_ReassignFrame ==
    /\ [][(pc = "resolve" \/ pc = "draw")
           => \A i \in 1..Len(tasks) :
                  tasks[i].file \notin ConflictFiles
                      => tasks'[i].hash = tasks[i].hash]_vars
    /\ [](Reassigned
           => \A c \in 1..Len(conflicts) :
                  Cardinality({f \in Range(conflicts[c].files) :
                                   HashOfFile(tasks, f) # conflicts[c].hash})
                      = Len(conflicts[c].files) - 1)

\* resolveConflicts has returned in a round with a task outside the groups
\* and a group of two files, one of which holds a new identifier.
C35_Witness ==
    /\ Reassigned
    /\ \E i \in 1..Len(tasks) : tasks[i].file \notin ConflictFiles
    /\ \E c \in 1..Len(conflicts) :
           /\ Len(conflicts[c].files) = 2
           /\ \E f \in Range(conflicts[c].files) :
                  HashOfFile(tasks, f) # conflicts[c].hash

\* The identifier of the document of task i after a run of the direct path:
\* processFile leaves a document that has an identifier alone under
\* skipExisting, and gives any other the identifier derived from its name.
DirectIdentifier(i) ==
    IF tasks[i].hasAbbrlink /\ settings.skipExisting
    THEN firstHashes[i]
    ELSE EncodeDigest(Sha256Hex(basename[tasks[i].file]),
                      settings.hashLength, settings.useDecimal)

\* The identifiers of the tasks of a collision-checked run were pairwise
\* distinct at the first detection round, and the run has committed them.
CommittedAtOnce == Committed /\ nDetect = 1

\* C36: without useRandomMode, a collision-checked run whose tasks had
\* pairwise distinct identifiers leaves every document of the batch with the
\* identifier that the direct path leaves it with.
C36_PathsAgree ==
    (CommittedAtOnce /\ ~settings.useRandomMode)
    => \A i \in 1..Len(tasks) :
           getExistingAbbrlink(vault[tasks[i].file], settings.hashLength,
                               settings.useDecimal) = DirectIdentifier(i)

\* Every handler of a created file that has started has also ended.
HandlersEnded ==
    /\ Len(create.handlers) >= 1
    /\ \A h \in 1..Len(create.handlers) :
           create.handlers[h].pc \in {"done", "failed"}

\* C31: when every handler of a created file that started has ended,
\* settings.useRandomMode is what the user has set, also after handlers that
\* ran at the same time and after a processFile that failed.
C31_RandomModeRestored ==
    HandlersEnded => settings.useRandomMode = create.configured

\* The identifier derived from the name of the document of task i.
NameIdentifier(i) ==
    EncodeDigest(Sha256Hex(basename[tasks[i].file]), settings.hashLength,
                 settings.useDecimal)

\* C32: in a batch run started with useRandomMode off, every task without an
\* identifier is given the identifier derived from the name of its document,
\* on both paths, also while files are created.
C32_NameDerivedInRun ==
    ~create.configured
    => \A i \in 1..Len(tasks) :
           ~tasks[i].hasAbbrlink
               => /\ (nDetect >= 1 => firstHashes[i] = NameIdentifier(i))
                  /\ (pc = "direct" /\ proc[i].pc = "write")
                        => proc[i].abbrlink = NameIdentifier(i)

\* C37: a step writes a document only for a handler of that very file, which
\* was created with autoGenerate on, and never when the document carries an
\* identifier and skipExisting is on.
C37_CreateWritesOwnFile ==
    [][\A f \in Files :
          writes'[f] # writes[f]
              => /\ create.autoGenerate
                 /\ \E h \in 1..Len(create.handlers) :
                        /\ create.handlers[h].file = f
                        /\ create.handlers[h].pc = "write"
                 /\ ~(settings.skipExisting /\ CarriesIdentifier(vault[f]))
      ]_vars

\* A handler has written the file it was started for, and a handler of a
\* file that carries an identifier has ended without writing, with
\* skipExisting.
C37_Witness ==
    /\ settings.skipExisting
    /\ \E h, k \in 1..Len(create.handlers) :
           /\ create.handlers[h].file \in Files
           /\ create.handlers[k].file \in Files
           /\ create.handlers[h].pc = "done"
           /\ create.handlers[k].pc = "done"
           /\ writes[create.handlers[h].file] # <<>>
           /\ writes[create.handlers[k].file] = <<>>
           /\ CarriesIdentifier(vault[create.handlers[k].file])

====
